---- MODULE Spec2Model ----
(***************************************************************************)
(* Model of the MDS provider client: the two ProviderClient classes of the *)
(* package (mds_provider_client/client.py and                              *)
(* mds_provider_client/mds_provider_client.py), their constructor and      *)
(* session authenticator, and the paginated fetch _request with its        *)
(* timeout-retry loop, driven by a nondeterministic server.                *)
(***************************************************************************)
EXTENDS Integers, Sequences, FiniteSets, TLC

\* ------------------------------------------------------------------ bounds
\* Largest max_attempts a client is configured with.
MaxAttempts == 2
\* Longest chain of pages the server links together with `next`.
MaxPages == 3

\* ------------------------------------------------------------ python values
None == [k |-> "none"]
Str(s) == [k |-> "str", s |-> s]
PyInt(n) == [k |-> "int", n |-> n]

\* Python truth value of None, a str or an int.
Truthy(v) ==
    CASE v.k = "none" -> FALSE
      [] v.k = "str" -> v.s # ""
      [] v.k = "int" -> v.n # 0
      [] OTHER -> TRUE

\* str(v) as an f-string renders it: None becomes the text "None".
Format(v) == IF v.k = "none" THEN "None" ELSE v.s

\* str.lower() on the auth types the model draws.
Lower(s) ==
    CASE s = "HTTPBasicAuth" -> "httpbasicauth"
      [] s = "Bearer" -> "bearer"
      [] s = "Basic" -> "basic"
      [] OTHER -> s

\* A dict is a function on its keys; {} is the function on no key.
EmptyDict == [x \in {} |-> None]
\* d.update(e): the entries of e win.
DictUpdate(d, e) == e @@ d

\* ------------------------------------------------------------- the modules
Revs == {"client", "mds_provider_client"}
Endpoints == {"status_changes", "trips"}

\* ------------------------------------------------------------------- state
VARIABLES
    rev,        \* the module the ProviderClient class is imported from
    args,       \* the constructor call: keywords given and their values
    client,     \* the ProviderClient object: its configuration attributes
    session,    \* client.session: default headers and auth of the Session
    res,        \* self.res (mds_provider_client.py): the last response
    links,      \* self.links (mds_provider_client.py): the last links object
    attr,       \* self.<endpoint>: the list object bound to each endpoint
    heap,       \* the list objects: heap[i] is the content of list i
    call        \* per thread: the locals and position of its _request call

vars == <<rev, args, client, session, res, links, attr, heap, call>>

Threads == {1, 2}

\* --------------------------------------------------------------- sentinels
NoClient == [state |-> "new"]
NoSession == [built |-> FALSE]
Unset == [k |-> "unset"]
NoList == 0

\* ----------------------------------------------------------- the constructor
\* Session(): a fresh requests session has no Authorization header and no auth.
NewSession == [built |-> TRUE, headers |-> EmptyDict, auth |-> None]

\* A keyword the constructor call does not pass.
NotGiven == [k |-> "notgiven"]
\* The keywords the constructor call passes.
Given(a) == {name \in DOMAIN a : a[name] # NotGiven}
\* The value of a keyword of the constructor call, or its default.
Arg(a, name, default) == IF a[name] = NotGiven THEN default ELSE a[name]

\* max_attempts=5 in both signatures.
DefaultMaxAttempts == 5

\* f"{self.auth_type} {self.token}"
AuthorizationValue(auth_type, token) ==
    [k |-> "authz", scheme |-> auth_type.s, cred |-> Format(token)]

\* session.auth = (user, password)
BasicAuth(user, password) == [k |-> "tuple", user |-> user, password |-> password]

\* _auth_session merging self.headers into the session in both branches.
AuthSessionMergesHeaders(c) ==
    [c |-> c,
     s |-> [NewSession EXCEPT
               !.headers = DictUpdate(NewSession.headers, c.headers),
               !.auth = IF Lower(c.auth_type.s) = "httpbasicauth"
                        THEN BasicAuth(c.user, c.password) ELSE None]]

\* mds_provider_client.py: _auth_session.
AuthSessionNew(c) ==
    IF Lower(c.auth_type.s) = "httpbasicauth"
    THEN [c |-> c,
          s |-> [NewSession EXCEPT !.auth = BasicAuth(c.user, c.password)]]
    ELSE LET h == DictUpdate(c.headers,
                    "Authorization" :> AuthorizationValue(c.auth_type, c.token))
         IN [c |-> [c EXCEPT !.headers = h],
             s |-> [NewSession EXCEPT !.headers = DictUpdate(NewSession.headers, h)]]

\* client.py: _auth_session.
AuthSessionOld(c) ==
    LET h == DictUpdate(c.headers,
                 "Authorization" :> AuthorizationValue(c.auth_type, c.token))
    IN [c |-> [c EXCEPT !.headers = h],
        s |-> [NewSession EXCEPT !.headers = DictUpdate(NewSession.headers, h)]]

\* The attributes __init__ sets from the call's keywords and defaults.
Attributes(a) ==
    [state |-> "ok",
     url |-> a.url,
     token |-> Arg(a, "token", None),
     user |-> Arg(a, "user", None),
     password |-> Arg(a, "password", None),
     auth_type |-> Arg(a, "auth_type", Str("Bearer")),
     headers |-> IF Arg(a, "headers", None) \in {None, EmptyDict}
                 THEN EmptyDict ELSE a.headers,
     max_attempts |-> Arg(a, "max_attempts", PyInt(DefaultMaxAttempts)).n]

Raised(exc) == [state |-> "failed", exc |-> exc]

\* mds_provider_client.py: __init__.
InitNew(a) ==
    LET c == Attributes(a) IN
    IF ~Truthy(c.token) /\ ~Truthy(c.user)
    THEN [c |-> Raised("Exception"), s |-> NoSession]
    ELSE AuthSessionNew(c)

\* client.py: __init__. token is a required parameter; user and password are
\* not parameters of this signature.
InitOld(a) ==
    IF "token" \notin Given(a) \/ Given(a) \cap {"user", "password"} # {}
    THEN [c |-> Raised("TypeError"), s |-> NoSession]
    ELSE AuthSessionOld(Attributes(a))

\* ProviderClient(...)
Construct ==
    /\ client = NoClient
    /\ LET o == IF rev = "client" THEN InitOld(args) ELSE InitNew(args)
       IN /\ client' = o.c
          /\ session' = o.s
    /\ UNCHANGED <<rev, args, res, links, attr, heap, call>>

\* --------------------------------------------------------------- the server
\* self.url.rstrip("/") + "/" + endpoint
BuildUrl(url, endpoint) == [k |-> "url", host |-> url.host, ep |-> endpoint, n |-> 1]
\* The `next` link the server puts in page n - 1.
NextUrl(endpoint, n) == [k |-> "next", ep |-> endpoint, n |-> n]

OtherEndpoint(ep) == IF ep = "trips" THEN "status_changes" ELSE "trips"

Absent == [k |-> "absent"]
NotJson == [k |-> "notjson"]

\* The `data` member of an envelope: absent, without the endpoint's key, or
\* holding the endpoint's record array.
DataParts(ep) ==
    {Absent, OtherEndpoint(ep) :> <<9>>, ep :> <<>>, ep :> <<1>>, ep :> <<2, 1>>}

\* The `links` member of page n: absent, {}, without `next`, `next: null`, or
\* (while the chain is shorter than MaxPages) the URL of page n + 1.
LinkParts(ep, n) ==
    {Absent, EmptyDict, "prev" :> NextUrl(ep, n - 1), "next" :> None}
        \cup (IF n < MaxPages THEN {"next" :> NextUrl(ep, n + 1)} ELSE {})

\* A page envelope is the dict parsed from the body: its keys are among
\* "data" and "links".
Envelope(d, l) ==
    (IF d = Absent THEN EmptyDict ELSE "data" :> d)
        @@ (IF l = Absent THEN EmptyDict ELSE "links" :> l)

Pages(ep, n) == {Envelope(d, l) : d \in DataParts(ep), l \in LinkParts(ep, n)}

\* What the server may answer to a GET of `url`.
Responses(url) ==
    {[status |-> 200, url |-> url, body |-> b] :
         b \in Pages(url.ep, url.n) \cup {NotJson}}
        \cup {[status |-> 202, url |-> url, body |-> b] :
                  b \in {Envelope(url.ep :> <<1>>, Absent),
                         Envelope(url.ep :> <<2, 1>>, "next" :> None)}}
        \cup {[status |-> s, url |-> url, body |-> NotJson] : s \in {204, 404, 500}}

\* Response.raise_for_status(): HTTPError for a 4xx or 5xx status only.
RaisesForStatus(r) == 400 =< r.status /\ r.status < 600

\* ------------------------------------------------------ query normalization
Datetime(ms) == [k |-> "datetime", ms |-> ms]
Float(ms) == [k |-> "float", ms |-> ms]

\* round(x) in place of int(x).
IntOfMillisRounded(ms) == (ms + 500) \div 1000

\* int(x) of a number of milliseconds x/1000: truncation toward zero.
IntOfMillis(ms) == IF ms >= 0 THEN ms \div 1000 ELSE -((-ms) \div 1000)

\* _date_format
DateFormat(dt) ==
    CASE dt.k = "datetime" -> PyInt(IntOfMillis(dt.ms))
      [] dt.k = "float" -> PyInt(IntOfMillis(dt.ms))
      [] OTHER -> dt

FormatIfSet(t) == IF t # None THEN DateFormat(t) ELSE t

\* get_status_changes: the params mapping handed to _request.
StatusChangesParams(kw) ==
    DictUpdate(("start_time" :> FormatIfSet(kw.start_time))
                   @@ ("end_time" :> FormatIfSet(kw.end_time))
                   @@ ("bbox" :> kw.bbox),
               kw.kwargs)

\* get_trips: the params mapping handed to _request.
TripsParams(kw) ==
    DictUpdate(("device_id" :> kw.device_id)
                   @@ ("vehicle_id" :> kw.vehicle_id)
                   @@ ("start_time" :> FormatIfSet(kw.start_time))
                   @@ ("end_time" :> FormatIfSet(kw.end_time))
                   @@ ("bbox" :> kw.bbox),
               kw.kwargs)

\* --------------------------------------------------------------- _request
\* A thread that is in no call.
Idle ==
    [pc |-> "idle", endpoint |-> "", params |-> None, paging |-> TRUE,
     url |-> None, attempts |-> 0, r |-> Unset, this_page |-> Unset,
     ret |-> NoList, exc |-> "",
     \* history of the call, for the properties
     orig |-> None, iter |-> 0, timeouts |-> 0, waits |-> 0,
     reqs |-> <<>>, served |-> <<>>,
     \* the filters the caller passed, the responses the call's own GETs
     \* got, and the thread's finished calls
     kw |-> None, recv |-> <<>>, past |-> <<>>]

Set(t, c) == call' = [call EXCEPT ![t] = c]

\* The list object a fresh [] gets.
NewList == Len(heap) + 1

\* __has_data
HasData(page, endpoint) ==
    LET data == IF "data" \in DOMAIN page THEN page["data"] ELSE "__payload__" :> <<>>
        payload == IF endpoint \in DOMAIN data THEN data[endpoint] ELSE <<>>
    IN Len(payload) > 0

\* dict.get(key)
Get(d, key) == IF key \in DOMAIN d THEN d[key] ELSE None

\* client.py: __next_url
NextUrlOld(page) ==
    IF "links" \in DOMAIN page THEN Get(page["links"], "next") ELSE None

\* `not x` for a links object or a URL.
Falsy(x) == x = None \/ x = EmptyDict

\* A reset that empties the list the attribute already holds.
ResetClearsInPlace(ep) ==
    IF attr[ep] = NoList
    THEN [attr |-> [attr EXCEPT ![ep] = NewList], heap |-> Append(heap, <<>>)]
    ELSE [attr |-> attr, heap |-> [heap EXCEPT ![attr[ep]] = <<>>]]

\* A reset that keeps the list the attribute already holds.
ResetKeepsRecords(ep) ==
    IF attr[ep] = NoList
    THEN [attr |-> [attr EXCEPT ![ep] = NewList], heap |-> Append(heap, <<>>)]
    ELSE [attr |-> attr, heap |-> heap]

\* setattr(self, endpoint, []): the attribute is bound to a new empty list.
Reset(ep) == [attr |-> [attr EXCEPT ![ep] = NewList], heap |-> Append(heap, <<>>)]

\* get_status_changes / get_trips up to the page loop of _request:
\* url = self._build_url(endpoint); setattr(self, endpoint, []).
StartCall(t, ep, kw, paging) ==
    /\ client.state = "ok"
    /\ call[t].pc = "idle"
    /\ LET p == IF ep = "trips" THEN TripsParams(kw) ELSE StatusChangesParams(kw)
       IN Set(t, [Idle EXCEPT !.pc = "loop", !.endpoint = ep, !.params = p,
                              !.paging = paging, !.orig = p,
                              !.url = BuildUrl(client.url, ep),
                              !.kw = kw, !.past = call[t].past])
    /\ attr' = Reset(ep).attr
    /\ heap' = Reset(ep).heap
    /\ UNCHANGED <<rev, args, client, session, res, links>>

\* The attempts counter carried over from the page before.
KeptAttempts(attempts) == attempts

\* attempts = 0 at the top of each page iteration.
FreshAttempts(attempts) == 0

\* while True: attempts = 0
LoopTop(t) ==
    /\ call[t].pc = "loop"
    /\ Set(t, [call[t] EXCEPT !.pc = "retry", !.attempts = FreshAttempts(@),
                              !.iter = @ + 1, !.timeouts = 0])
    /\ UNCHANGED <<rev, args, client, session, res, links, attr, heap>>

\* while attempts < self.max_attempts: false, the loop ends without a break.
RetryExhausted(t) ==
    /\ call[t].pc = "retry"
    /\ ~(call[t].attempts < client.max_attempts)
    /\ Set(t, [call[t] EXCEPT !.pc = "parse"])
    /\ UNCHANGED <<rev, args, client, session, res, links, attr, heap>>

\* time.sleep(self.delay) is in mds_provider_client.py only.
Sleeps == IF rev = "client" THEN 0 ELSE 1

\* An attempt that is not counted.
SentWithoutCounting(c) ==
    [c EXCEPT !.waits = @ + Sleeps,
              !.reqs = Append(@, [url |-> c.url, params |-> c.params, iter |-> c.iter])]

\* The call's record after attempts += 1, the sleep and the sending of the GET.
Sent(c) ==
    [c EXCEPT !.attempts = @ + 1, !.waits = @ + Sleeps,
              !.reqs = Append(@, [url |-> c.url, params |-> c.params, iter |-> c.iter])]

\* The timeout handler retrying once more than it should.
RetriesTimeoutOffByOne(attempts, max_attempts) == attempts =< max_attempts

\* except Timeout: if attempts < self.max_attempts: continue, else: raise
RetriesTimeout(attempts, max_attempts) == attempts < max_attempts

\* One attempt whose GET raises requests.exceptions.Timeout.
AttemptTimeout(t) ==
    /\ call[t].pc = "retry"
    /\ call[t].attempts < client.max_attempts
    /\ LET c == [Sent(call[t]) EXCEPT !.timeouts = @ + 1]
       IN IF RetriesTimeout(c.attempts, client.max_attempts)
          THEN Set(t, c)
          ELSE Set(t, [c EXCEPT !.pc = "raised", !.exc = "Timeout"])
    /\ UNCHANGED <<rev, args, client, session, res, links, attr, heap>>

\* One attempt whose GET raises another transport error: not caught.
AttemptError(t) ==
    /\ call[t].pc = "retry"
    /\ call[t].attempts < client.max_attempts
    /\ Set(t, [Sent(call[t]) EXCEPT !.pc = "raised", !.exc = "ConnectionError"])
    /\ UNCHANGED <<rev, args, client, session, res, links, attr, heap>>

\* One attempt whose GET returns a response: self.res = ... (r = ... in
\* client.py).
AttemptResponseFrom(t, answers) ==
    /\ call[t].pc = "retry"
    /\ call[t].attempts < client.max_attempts
    /\ \E resp \in answers :
          LET c == [Sent(call[t]) EXCEPT
                       !.pc = "status",
                       !.recv = Append(@, [resp |-> resp, iter |-> call[t].iter])]
          IN IF rev = "client"
             THEN /\ Set(t, [c EXCEPT !.r = resp])
                  /\ UNCHANGED res
             ELSE /\ Set(t, c)
                  /\ res' = resp
    /\ UNCHANGED <<rev, args, client, session, links, attr, heap>>

\* An attempt answered by any response of the server.
AttemptResponse(t) == AttemptResponseFrom(t, Responses(call[t].url))

\* The response the call holds: the local r, or the attribute self.res.
Held(t) == IF rev = "client" THEN call[t].r ELSE res

\* raise_for_status(), then break. client.py calls it only when
\* r.status_code is not 200.
CheckStatus(t) ==
    /\ call[t].pc = "status"
    /\ IF (rev = "client" => Held(t).status # 200) /\ RaisesForStatus(Held(t))
       THEN Set(t, [call[t] EXCEPT !.pc = "raised", !.exc = "HTTPError"])
       ELSE Set(t, [call[t] EXCEPT !.pc = "parse"])
    /\ UNCHANGED <<rev, args, client, session, res, links, attr, heap>>

\* this_page = self.res.json()
Parse(t) ==
    /\ call[t].pc = "parse"
    /\ LET h == Held(t) IN
       CASE h = Unset ->
              Set(t, [call[t] EXCEPT !.pc = "raised",
                         !.exc = IF rev = "client" THEN "UnboundLocalError"
                                 ELSE "AttributeError"])
         [] h # Unset /\ h.body = NotJson ->
              Set(t, [call[t] EXCEPT !.pc = "raised", !.exc = "ValueError"])
         [] OTHER ->
              Set(t, [call[t] EXCEPT !.pc = "hasdata", !.this_page = h.body,
                         !.served = Append(@, [page |-> h.body, status |-> h.status,
                                               url |-> h.url, iter |-> call[t].iter])])
    /\ UNCHANGED <<rev, args, client, session, res, links, attr, heap>>

\* An accumulator that skips the records it already holds.
ExtendedDeduplicated(list, records) ==
    list \o SelectSeq(records, LAMBDA x : \A i \in DOMAIN list : list[i] # x)

\* list.extend: the records are appended in their order.
Extended(list, records) == list \o records

\* An empty page that does not end the loop.
AfterEmptyPageFallsThrough == "links"

\* else: break, when the page has no data.
AfterEmptyPage == "return"

\* if __has_data(this_page): getattr(self, endpoint).extend(...) else: break
Extend(t) ==
    /\ call[t].pc = "hasdata"
    /\ LET c == call[t] IN
       IF HasData(c.this_page, c.endpoint)
       THEN /\ heap' = [heap EXCEPT ![attr[c.endpoint]] =
                            Extended(@, c.this_page["data"][c.endpoint])]
            /\ Set(t, [c EXCEPT !.pc = "links"])
       ELSE /\ Set(t, [c EXCEPT !.pc = AfterEmptyPage])
            /\ UNCHANGED heap
    /\ UNCHANGED <<rev, args, client, session, res, links, attr>>

\* The break that forgets the paging flag.
LastPageIgnoresPaging(paging, url) == Falsy(url)

\* if not paging or not url: break
LastPage(paging, url) == ~paging \/ Falsy(url)

\* client.py: url = __next_url(this_page); if not paging or not url: break
FollowOld(t) ==
    /\ rev = "client"
    /\ call[t].pc = "links"
    /\ LET u == NextUrlOld(call[t].this_page) IN
       Set(t, [call[t] EXCEPT !.url = u,
                  !.pc = IF LastPage(call[t].paging, u) THEN "return" ELSE "loop"])
    /\ UNCHANGED <<rev, args, client, session, res, links, attr, heap>>

\* mds_provider_client.py: self.links = this_page.get("links");
\* if not self.links: break
StoreLinks(t) ==
    /\ rev = "mds_provider_client"
    /\ call[t].pc = "links"
    /\ links' = Get(call[t].this_page, "links")
    /\ Set(t, [call[t] EXCEPT !.pc = IF Falsy(links') THEN "return" ELSE "nexturl"])
    /\ UNCHANGED <<rev, args, client, session, res, attr, heap>>

\* mds_provider_client.py: params = None; url = self.links.get("next");
\* if not paging or not url: break
FollowNew(t) ==
    /\ rev = "mds_provider_client"
    /\ call[t].pc = "nexturl"
    /\ LET u == Get(links, "next") IN
       Set(t, [call[t] EXCEPT !.params = None, !.url = u,
                  !.pc = IF LastPage(call[t].paging, u) THEN "return" ELSE "loop"])
    /\ UNCHANGED <<rev, args, client, session, res, links, attr, heap>>

\* return getattr(self, endpoint)
Return(t) ==
    /\ call[t].pc = "return"
    /\ Set(t, [call[t] EXCEPT !.pc = "returned", !.ret = attr[call[t].endpoint]])
    /\ UNCHANGED <<rev, args, client, session, res, links, attr, heap>>

\* ------------------------------------------------------------------ inputs
\* Base URLs, without and with a trailing slash.
Urls == {[host |-> "python.org", slashes |-> n] : n \in 0..1}

\* Constructor calls of the fetch specification: ProviderClient(url,
\* token="tok", max_attempts=m).
FetchArgs ==
    {[url |-> [host |-> "python.org", slashes |-> 0],
      token |-> Str("tok"), user |-> NotGiven, password |-> NotGiven,
      auth_type |-> NotGiven, headers |-> NotGiven,
      max_attempts |-> PyInt(m)] : m \in (-1)..MaxAttempts}

NoFilters ==
    [start_time |-> None, end_time |-> None, bbox |-> None, device_id |-> None,
     vehicle_id |-> None, providers |-> None, kwargs |-> EmptyDict]

\* Filters of the fetch specification.
FetchFilters == {NoFilters, [NoFilters EXCEPT !.start_time = Datetime(5500)]}

InitWith(A) ==
    /\ rev \in Revs
    /\ args \in A
    /\ client = NoClient
    /\ session = NoSession
    /\ res = Unset
    /\ links = Unset
    /\ attr = [e \in Endpoints |-> NoList]
    /\ heap = <<>>
    /\ call = [t \in Threads |-> Idle]

\* ------------------------------------------------- the fetch specification
\* One client, one thread, one call of get_status_changes or get_trips.
Init == InitWith(FetchArgs)

Start ==
    \E ep \in Endpoints, kw \in FetchFilters, paging \in BOOLEAN :
        StartCall(1, ep, kw, paging)

Next ==
    \/ Construct
    \/ Start
    \/ LoopTop(1)
    \/ RetryExhausted(1)
    \/ AttemptTimeout(1)
    \/ AttemptError(1)
    \/ AttemptResponse(1)
    \/ CheckStatus(1)
    \/ Parse(1)
    \/ Extend(1)
    \/ FollowOld(1)
    \/ StoreLinks(1)
    \/ FollowNew(1)
    \/ Return(1)

Spec == Init /\ [][Next]_vars

\* --------------------------------------- the concurrent specification
\* Longest chain of pages of the server of the concurrent and the sequential
\* specification.
ShortChain == 2

\* The answers of a server that never times out: a page with records and a
\* `next` link (while the chain is shorter than ShortChain), a last page, an
\* empty page, and a 404.
PlainResponses(url) ==
    {[status |-> 200, url |-> url, body |-> b] :
         b \in {Envelope(url.ep :> <<2, 1>>, Absent),
                Envelope(url.ep :> <<>>, "next" :> None)}
               \cup (IF url.n < ShortChain
                     THEN {Envelope(url.ep :> <<1>>, "next" :> NextUrl(url.ep, url.n + 1))}
                     ELSE {})}
        \cup {[status |-> 404, url |-> url, body |-> NotJson]}

\* ProviderClient(url, token="tok", max_attempts=1)
OneAttemptArgs == {a \in FetchArgs : a.max_attempts = PyInt(1)}

InitConc == InitWith(OneAttemptArgs)

\* Two threads of the caller, each making one call on the same client.
NextConc ==
    \/ Construct
    \/ \E t \in Threads :
          \/ \E ep \in Endpoints, paging \in BOOLEAN : StartCall(t, ep, NoFilters, paging)
          \/ LoopTop(t)
          \/ AttemptResponseFrom(t, PlainResponses(call[t].url))
          \/ CheckStatus(t)
          \/ Parse(t)
          \/ Extend(t)
          \/ FollowOld(t)
          \/ StoreLinks(t)
          \/ FollowNew(t)
          \/ Return(t)

SpecConc == InitConc /\ [][NextConc]_vars

\* --------------------------------------- the sequential specification
\* Calls one thread makes one after another on the same client.
MaxCalls == 2

\* return getattr(self, endpoint), or the exception leaving _request: the
\* caller has the list (and what it holds at that moment) or the error, and
\* the thread is free for its next call.
Handed(t) ==
    /\ call[t].pc \in {"returned", "raised"}
    /\ LET c == call[t] IN
       Set(t, [Idle EXCEPT !.past = Append(c.past,
                  [endpoint |-> c.endpoint, exc |-> c.exc, ret |-> c.ret,
                   value |-> IF c.ret = NoList THEN <<>> ELSE heap[c.ret],
                   recv |-> c.recv])])
    /\ UNCHANGED <<rev, args, client, session, res, links, attr, heap>>

InitSeq == InitWith(FetchArgs)

\* The next call of the thread, on either endpoint.
StartSeq ==
    /\ Len(call[1].past) < MaxCalls
    /\ \E ep \in Endpoints, paging \in BOOLEAN : StartCall(1, ep, NoFilters, paging)

NextSeq ==
    \/ Construct
    \/ StartSeq
    \/ LoopTop(1)
    \/ RetryExhausted(1)
    \/ AttemptResponseFrom(1, PlainResponses(call[1].url))
    \/ CheckStatus(1)
    \/ Parse(1)
    \/ Extend(1)
    \/ FollowOld(1)
    \/ StoreLinks(1)
    \/ FollowNew(1)
    \/ Return(1)
    \/ Handed(1)

SpecSeq == InitSeq /\ [][NextSeq]_vars

\* ----------------------------------- the query-parameter specification
\* start_time / end_time as the callers pass them: unset, Unix seconds as an
\* int or a float, or a datetime (whole or fractional second, before and
\* after the epoch).
TimeInputs ==
    {None, PyInt(0), PyInt(5), PyInt(-2), Datetime(0), Datetime(5000),
     Datetime(5500), Datetime(-1500), Float(5900), Float(-1500)}

\* The keyword arguments of get_status_changes: a filter that is not one of
\* its named parameters arrives in **kwargs.
StatusChangesFilters ==
    [start_time : TimeInputs, end_time : TimeInputs, bbox : {None, Str("bbox")},
     device_id : {None}, vehicle_id : {None}, providers : {None},
     kwargs : {EmptyDict, "limit" :> PyInt(10), "device_id" :> Str("dev")}]

\* The keyword arguments of get_trips.
TripsFilters ==
    [start_time : TimeInputs, end_time : TimeInputs, bbox : {None, Str("bbox")},
     device_id : {None, Str("dev")}, vehicle_id : {None, Str("veh")},
     providers : {None, Str("prov")},
     kwargs : {EmptyDict, "limit" :> PyInt(10)}]

InitParams == InitWith(OneAttemptArgs)

\* One client and the start of one call with any filters.
NextParams ==
    \/ Construct
    \/ \E kw \in StatusChangesFilters : StartCall(1, "status_changes", kw, TRUE)
    \/ \E kw \in TripsFilters : StartCall(1, "trips", kw, TRUE)

SpecParams == InitParams /\ [][NextParams]_vars

\* ------------------------------------- the constructor specification
\* Every constructor call over the credential keywords, on either class.
AllArgs ==
    [url : Urls,
     token : {NotGiven, None, Str(""), Str("tok")},
     user : {NotGiven, None, Str(""), Str("usr")},
     password : {NotGiven, None, Str("pw")},
     auth_type : {NotGiven, Str("Bearer"), Str("Basic"), Str("HTTPBasicAuth"),
                  Str("httpbasicauth")},
     headers : {NotGiven, None, EmptyDict, "Accept" :> Str("json"),
                ("Authorization" :> Str("mine")) @@ ("Accept" :> Str("json"))},
     max_attempts : {NotGiven}]

InitAuth == InitWith(AllArgs)

NextAuth == Construct

SpecAuth == InitAuth /\ [][NextAuth]_vars

\* ------------------------------------------------- what the server sent
\* The record array of an envelope for an endpoint; none when `data` or the
\* endpoint's entry is missing.
PageRecords(page, ep) ==
    IF "data" \in DOMAIN page /\ ep \in DOMAIN page["data"]
    THEN page["data"][ep] ELSE <<>>

\* The envelope carries a `next` link.
HasNext(page) ==
    /\ "links" \in DOMAIN page
    /\ "next" \in DOMAIN page["links"]
    /\ page["links"]["next"] # None

RECURSIVE Concatenation(_, _)
\* The records of the parsed pages, page after page.
Concatenation(served, ep) ==
    IF served = <<>> THEN <<>>
    ELSE PageRecords(Head(served).page, ep) \o Concatenation(Tail(served), ep)

\* The list a finished call returned.
Result(t) == heap[call[t].ret]

\* The number of GET attempts the call made in page iteration i.
AttemptsFor(t, i) == Cardinality({j \in DOMAIN call[t].reqs : call[t].reqs[j].iter = i})

RequestFailures == {"Timeout", "ConnectionError", "HTTPError", "ValueError"}

\* ------------------------------------------------------------------ claims

\* C1: with paging enabled, a call that was served pages with non-empty record
\* arrays by 200 responses returns only after a page without a `next` link,
\* it has requested the pages 1..n in order, and the list it returns is the
\* concatenation of their records in page order and within-page order; a call
\* that has sent a request raises only on a request failure.
C1_ReturnsConcatenation ==
    \A t \in Threads :
        LET c == call[t]
            n == Len(c.served)
        IN /\ (/\ c.pc = "returned"
               /\ c.paging
               /\ n >= 1
               /\ \A i \in 1..n : /\ c.served[i].status = 200
                                  /\ PageRecords(c.served[i].page, c.endpoint) # <<>>)
              => /\ ~HasNext(c.served[n].page)
                 /\ \A i \in 1..n : c.served[i].url.n = i
                 /\ Result(t) = Concatenation(c.served, c.endpoint)
           /\ (c.pc = "raised" /\ c.reqs # <<>>) => c.exc \in RequestFailures

\* A call returned the records of three pages: <<2, 1>>, <<1>>, <<2, 1>>.
C1_Witness ==
    /\ call[1].pc = "returned"
    /\ call[1].paging
    /\ Len(call[1].served) = 3
    /\ \A i \in 1..3 : call[1].served[i].status = 200
    /\ Result(1) = <<2, 1, 1, 2, 1>>

\* C2: once a page without `data`, without `data[endpoint]` or with an empty
\* record array has been parsed, the call is on its way out without error,
\* it has sent no request after the one that fetched that page (also when
\* the page carries a `next` link), and it returns the records of the pages
\* before it.
C2_StopsAtEmptyPage ==
    \A t \in Threads :
        LET c == call[t]
            k == Len(c.served)
        IN (/\ k >= 1
            /\ PageRecords(c.served[k].page, c.endpoint) = <<>>
            /\ c.pc # "hasdata")
           => /\ c.pc \in {"return", "returned"}
              /\ c.exc = ""
              /\ c.iter = k
              /\ c.reqs[Len(c.reqs)].iter = k
              /\ c.reqs[Len(c.reqs)].url = c.served[k].url
              /\ c.pc = "returned" =>
                     Result(t) = Concatenation(SubSeq(c.served, 1, k - 1), c.endpoint)

\* The second page has no record array but a `next` link, and the call
\* returned the first page's records.
C2_Witness ==
    /\ call[1].pc = "returned"
    /\ Len(call[1].served) = 2
    /\ PageRecords(call[1].served[2].page, call[1].endpoint) = <<>>
    /\ "data" \notin DOMAIN call[1].served[2].page
    /\ HasNext(call[1].served[2].page)
    /\ Result(1) = <<2, 1>>

\* C3: with paging=False every request of the call goes to the endpoint URL
\* in the first page iteration, never to a `next` URL, and the call returns
\* exactly the records of the first page.
C3_NoPagingFirstPageOnly ==
    \A t \in Threads :
        LET c == call[t] IN
        ~c.paging =>
            /\ \A j \in DOMAIN c.reqs : c.reqs[j].url.k = "url" /\ c.reqs[j].iter = 1
            /\ Len(c.served) =< 1
            /\ c.pc = "returned" =>
                   Result(t) = PageRecords(c.served[1].page, c.endpoint)

\* A call with paging=False returned the records of a first page that
\* carries a `next` link.
C3_Witness ==
    /\ call[1].pc = "returned"
    /\ ~call[1].paging
    /\ HasNext(call[1].served[1].page)
    /\ Result(1) = <<2, 1>>

\* The call is past the retry loop of its current page iteration with a
\* response.
HasResponse(c) == c.pc \in {"status", "parse", "hasdata", "links", "nexturl"} /\ c.attempts >= 1

\* C4: when the first k attempts for a page time out and attempt k+1 gets a
\* response, with k < max_attempts, exactly k+1 attempts were made for that
\* page (the budget of every page starts at zero attempts), no timeout error
\* is raised, and once the page is appended its records end the list.
C4_RetryThenSuccess ==
    \A t \in Threads :
        LET c == call[t] IN
        /\ HasResponse(c) =>
              /\ c.timeouts < client.max_attempts
              /\ c.attempts = c.timeouts + 1
              /\ AttemptsFor(t, c.iter) = c.timeouts + 1
        /\ (c.pc = "raised" /\ c.exc = "Timeout") => c.timeouts >= client.max_attempts
        /\ c.pc = "retry" => c.attempts = c.timeouts /\ AttemptsFor(t, c.iter) = c.timeouts
        /\ (c.pc \in {"links", "nexturl"}) =>
              LET recs == PageRecords(c.this_page, c.endpoint)
                  list == heap[attr[c.endpoint]]
              IN /\ Len(list) >= Len(recs)
                 /\ SubSeq(list, Len(list) - Len(recs) + 1, Len(list)) = recs

\* The first and the second page each took a timeout and then a response,
\* and the second page's records were appended.
C4_Witness ==
    /\ call[1].pc = "nexturl"
    /\ call[1].iter = 2
    /\ call[1].timeouts = 1
    /\ AttemptsFor(1, 1) = 2
    /\ AttemptsFor(1, 2) = 2
    /\ heap[attr[call[1].endpoint]] = <<1, 2, 1>>

\* C5: when max_attempts attempts for one page have all timed out, the call
\* has raised the timeout error after exactly max_attempts attempts for that
\* page and requested no later page; no page ever gets more than
\* max_attempts attempts.
C5_TimeoutAfterMaxAttempts ==
    \A t \in Threads :
        LET c == call[t] IN
        /\ (c.timeouts >= 1 /\ c.timeouts >= client.max_attempts) =>
              /\ c.pc = "raised"
              /\ c.exc = "Timeout"
              /\ c.attempts = client.max_attempts
              /\ AttemptsFor(t, c.iter) = client.max_attempts
              /\ c.reqs[Len(c.reqs)].iter = c.iter
        /\ (c.pc = "raised" /\ c.exc = "Timeout") => c.timeouts = client.max_attempts
        /\ \A i \in 1..c.iter :
              AttemptsFor(t, i) = 0 \/ AttemptsFor(t, i) =< client.max_attempts

\* The second page timed out max_attempts = 2 times and the call raised.
C5_Witness ==
    /\ call[1].pc = "raised"
    /\ call[1].exc = "Timeout"
    /\ call[1].iter = 2
    /\ client.max_attempts = 2
    /\ AttemptsFor(1, 2) = 2

\* C6: every request to a server-supplied `next` URL carries no query
\* parameters, and every request of the first page carries the caller's
\* filters.
C6_NextRequestsCarryNoParams ==
    \A t \in Threads :
        \A j \in DOMAIN call[t].reqs :
            LET q == call[t].reqs[j] IN
            /\ q.url.k = "next" => q.params = None
            /\ q.iter = 1 => q.params = call[t].orig

\* C7: a response with a status other than 200 is never parsed as a page and
\* never lets the call go on: after the status check the call has raised the
\* request-failed error.
C7_Non200Fails ==
    \A t \in Threads :
        LET c == call[t] IN
        /\ \A i \in DOMAIN c.served : c.served[i].status = 200
        /\ (c.pc = "parse" /\ Held(t) # Unset) => Held(t).status = 200

\* The credentials the request context carries.
HasAuthorizationHeader == session.built /\ "Authorization" \in DOMAIN session.headers
HasBasicAuth == session.built /\ session.auth # None

\* The constructor call gives neither a token nor a username (None or "").
NoCredentials ==
    /\ ~Truthy(Arg(args, "token", None))
    /\ ~Truthy(Arg(args, "user", None))

\* C8: a constructor call in which token and username are both absent ends
\* in an error, with no session built and no client to call.
C8_NoCredentialsRejected ==
    (client # NoClient /\ NoCredentials) =>
        client.state = "failed" /\ session = NoSession

\* C9: ProviderClient(url=...) with no other argument succeeds and the
\* client's url attribute is the URL passed.
C9_UrlAloneConstructs ==
    (client # NoClient /\ Given(args) = {"url"}) =>
        client.state = "ok" /\ client.url = args.url

\* C10: the request context of every constructed client carries either an
\* Authorization default header or basic-auth credentials, never both and
\* never neither.
C10_ExactlyOneCredential ==
    client.state = "ok" => (HasAuthorizationHeader # HasBasicAuth)

\* A client in basic-auth mode whose caller also passed an Authorization
\* header.
C10_Witness ==
    /\ client.state = "ok"
    /\ HasBasicAuth
    /\ "Authorization" \in DOMAIN client.headers

\* The constructor call gives both a token and a username.
BothCredentials ==
    /\ Truthy(Arg(args, "token", None))
    /\ Truthy(Arg(args, "user", None))

\* C11: a constructor call of mds_provider_client.ProviderClient that gives
\* both a token and a username/password is rejected like one that gives
\* neither: construction ends in an error and no session is built.
C11_ContradictoryCredentialsRejected ==
    (rev = "mds_provider_client" /\ client # NoClient
        /\ (BothCredentials \/ NoCredentials)) =>
        client.state = "failed" /\ session = NoSession

RECURSIVE OwnRecords(_, _)
\* The records of the pages the call's own GETs were answered with.
OwnRecords(recv, ep) ==
    IF recv = <<>> THEN <<>>
    ELSE (IF Head(recv).resp.body = NotJson THEN <<>>
          ELSE PageRecords(Head(recv).resp.body, ep))
         \o OwnRecords(Tail(recv), ep)

\* C12: under every interleaving of two calls on one client, each call checks
\* and parses the response of its own last GET, follows the links object of
\* the page it parsed itself, and returns the records of the pages its own
\* GETs were answered with, as it does when it runs alone.
C12_ConcurrentCallsIsolated ==
    \A t \in Threads :
        LET c == call[t] IN
        /\ (c.pc \in {"status", "parse"} /\ c.recv # <<>>) =>
               Held(t) = c.recv[Len(c.recv)].resp
        /\ c.pc = "nexturl" => links = Get(c.this_page, "links")
        /\ c.pc = "returned" => Result(t) = OwnRecords(c.recv, c.endpoint)

\* C13: every GET attempt of a call is sent after a wait of its own, so at
\* every point the call has waited as many times as it has sent requests.
C13_EveryAttemptWaits ==
    \A t \in Threads : call[t].waits = Len(call[t].reqs)

\* n is the number of milliseconds ms cut to whole seconds.
WholeSeconds(ms, n) ==
    IF ms >= 0 THEN n * 1000 =< ms /\ ms < n * 1000 + 1000
    ELSE ms =< n * 1000 /\ n * 1000 - 1000 < ms

\* The integer a time filter is to reach the fetcher as.
Normalized(v, p) ==
    /\ p.k = "int"
    /\ v.k = "int" => p.n = v.n
    /\ v.k \in {"datetime", "float"} => WholeSeconds(v.ms, p.n)

\* C14: every time filter that is set reaches _request as an integer: the
\* number itself for Unix seconds, the same integer for the datetime of that
\* whole second, and the whole seconds of a value with a sub-second part.
C14_TimeFiltersNormalized ==
    \A t \in Threads :
        LET c == call[t] IN
        c.pc # "idle" =>
            \A f \in {"start_time", "end_time"} :
                c.kw[f] # None => Normalized(c.kw[f], c.orig[f])

\* start_time is a datetime with a sub-second part and end_time the number
\* of the same whole second: both reach _request as 5.
C14_Witness ==
    /\ call[1].pc # "idle"
    /\ call[1].kw.start_time = Datetime(5500)
    /\ call[1].kw.end_time = PyInt(5)
    /\ call[1].orig["start_time"] = PyInt(5)
    /\ call[1].orig["end_time"] = PyInt(5)

\* The named filters of the endpoint's operation.
NamedFilters(ep) ==
    IF ep = "trips"
    THEN {"providers", "device_id", "vehicle_id", "start_time", "end_time", "bbox"}
    ELSE {"start_time", "end_time", "bbox"}

\* C15: the keys of the mapping handed to _request are exactly the named
\* filters that were given a value and the caller's extra filters, the
\* extra filters and the non-time filters with the caller's values.
C15_ParamsAreTheSetFilters ==
    \A t \in Threads :
        LET c == call[t] IN
        c.pc # "idle" =>
            /\ DOMAIN c.orig =
                   {f \in NamedFilters(c.endpoint) : c.kw[f] # None} \cup DOMAIN c.kw.kwargs
            /\ \A f \in DOMAIN c.kw.kwargs : c.orig[f] = c.kw.kwargs[f]

\* C16: in a sequence of calls on one client, the list a call returns holds
\* the records of the pages its own GETs were answered with and nothing of
\* an earlier call, and every list an earlier call returned still holds
\* what it held when it was returned.
C16_CallsOwnTheirResult ==
    \A t \in Threads :
        LET c == call[t] IN
        /\ c.pc = "returned" => Result(t) = OwnRecords(c.recv, c.endpoint)
        /\ \A i \in DOMAIN c.past :
              LET p == c.past[i] IN
              p.ret # NoList =>
                  /\ p.value = OwnRecords(p.recv, p.endpoint)
                  /\ heap[p.ret] = p.value
                  /\ c.pc # "idle" => attr[c.endpoint] # p.ret

\* A second call on the endpoint of the first has returned other records
\* than the first call did.
C16_Witness ==
    /\ Len(call[1].past) = 1
    /\ call[1].past[1].ret # NoList
    /\ call[1].past[1].endpoint = call[1].endpoint
    /\ call[1].past[1].value = <<1, 2, 1>>
    /\ call[1].pc = "returned"
    /\ Result(1) = <<2, 1>>

\* The parsed pages whose records have been appended.
Processed(c) ==
    IF c.pc = "hasdata" THEN SubSeq(c.served, 1, Len(c.served) - 1) ELSE c.served

\* C17: at every point of a call the attribute named after the endpoint
\* holds the concatenation of the pages processed so far in this call; the
\* returned list is that attribute's list, and a call that fails in page
\* iteration k leaves the records of pages 1..k-1 in it.
C17_AttributeHoldsProcessedPages ==
    \A t \in Threads :
        LET c == call[t] IN
        c.pc # "idle" =>
            /\ attr[c.endpoint] # NoList
            /\ heap[attr[c.endpoint]] = Concatenation(Processed(c), c.endpoint)
            /\ c.pc = "returned" => c.ret = attr[c.endpoint]
            /\ c.pc = "raised" => Len(c.served) = c.iter - 1

\* The second call on an endpoint fails on its page 2, after a first call
\* that returned three records: the attribute holds the record of page 1.
C17_Witness ==
    /\ Len(call[1].past) = 1
    /\ call[1].past[1].endpoint = call[1].endpoint
    /\ call[1].past[1].value = <<1, 2, 1>>
    /\ call[1].pc = "raised"
    /\ call[1].iter = 2
    /\ heap[attr[call[1].endpoint]] = <<1>>

\* C19: for every max_attempts, every page a call has parsed is the body of
\* the response one of the call's own GETs got in that same page iteration,
\* no two parsed pages come from the same iteration, and a call that can
\* make no attempt (max_attempts <= 0) parses nothing.
C19_ParsesOnlyFreshResponses ==
    \A t \in Threads :
        LET c == call[t] IN
        /\ \A i \in DOMAIN c.served :
              \E j \in DOMAIN c.recv :
                  /\ c.recv[j].iter = c.served[i].iter
                  /\ c.recv[j].resp.body = c.served[i].page
                  /\ c.recv[j].resp.status = c.served[i].status
                  /\ c.recv[j].resp.url = c.served[i].url
        /\ \A i, k \in DOMAIN c.served : i < k => c.served[i].iter < c.served[k].iter
        /\ \A j, k \in DOMAIN c.recv : j < k => c.recv[j].iter < c.recv[k].iter
        /\ (client # NoClient /\ client.state = "ok" /\ client.max_attempts =< 0) =>
               c.served = <<>> /\ c.recv = <<>>

\* The second call on the client has parsed two pages, after a first call
\* that got responses of its own.
C19_Witness ==
    /\ Len(call[1].past) = 1
    /\ call[1].past[1].recv # <<>>
    /\ Len(call[1].served) = 2
    /\ call[1].served[2].iter = 2

\* The attempts one page iteration can make.
MostAttempts ==
    IF client # NoClient /\ client.state = "ok" /\ client.max_attempts > 0
    THEN client.max_attempts ELSE 0

\* A bound on the steps of one page iteration.
StepsOfPage == MostAttempts + 9

\* A bound on the steps the call has left: the steps left in its page
\* iteration and StepsOfPage for every page the chain may still have.
StepsLeft(t) ==
    LET c == call[t]
        pages == (MaxPages - c.iter) * StepsOfPage
    IN CASE c.pc \in {"returned", "raised"} -> 0
         [] c.pc = "return" -> 1
         [] c.pc = "nexturl" -> pages + 2
         [] c.pc = "links" -> pages + 3
         [] c.pc = "hasdata" -> pages + 4
         [] c.pc = "parse" -> pages + 5
         [] c.pc = "status" -> pages + 6
         [] c.pc = "retry" -> pages + 7 + (MostAttempts - c.attempts)
         [] c.pc = "loop" -> pages - 1
         [] OTHER -> 0

\* C18: against a server whose page chain is finite (at most MaxPages pages)
\* and whose every GET completes or times out, a call of any max_attempts
\* (so of any max_attempts >= 1) ends: while it has neither returned nor
\* raised it can take a step, every step lowers a natural-number bound on
\* the steps it has left, and it goes on to another page iteration only
\* after a non-empty page with a `next` link.
C18_FetchTerminates ==
    /\ [](\A t \in Threads :
             call[t].pc # "idle" =>
                 /\ StepsLeft(t) \in Nat
                 /\ call[t].pc \notin {"returned", "raised"} => ENABLED Next)
    /\ [][\A t \in Threads :
             call[t].pc # "idle" => StepsLeft(t)' < StepsLeft(t)]_vars
    /\ [][\A t \in Threads :
             (call[t].pc \in {"links", "nexturl"} /\ call'[t].pc = "loop") =>
                 /\ call[t].paging
                 /\ HasData(call[t].this_page, call[t].endpoint)
                 /\ HasNext(call[t].this_page)]_vars

\* A call of max_attempts >= 1 has returned after the longest chain of
\* pages and at least one timeout.
C18_Witness ==
    /\ call[1].pc = "returned"
    /\ client.max_attempts >= 1
    /\ call[1].iter = MaxPages
    /\ Len(call[1].reqs) > MaxPages

\* C20: the request context of a client of mds_provider_client.py carries
\* the credential that was supplied: with a username and no token, the
\* basic-auth pair (user, password) and no Authorization header; with a token
\* and no username, the header Authorization: <auth_type> <token> and no
\* basic-auth pair; and never a header or a pair made from an absent value.
C20_CredentialIsTheSupplied ==
    (rev = "mds_provider_client" /\ client # NoClient /\ client.state = "ok") =>
        LET token == Arg(args, "token", None)
            user == Arg(args, "user", None)
            password == Arg(args, "password", None)
        IN /\ (Truthy(user) /\ ~Truthy(token)) =>
                  /\ session.auth = BasicAuth(user, password)
                  /\ ~HasAuthorizationHeader
           /\ (Truthy(token) /\ ~Truthy(user)) =>
                  /\ HasAuthorizationHeader
                  /\ session.headers["Authorization"] =
                         AuthorizationValue(client.auth_type, token)
                  /\ ~HasBasicAuth
           /\ HasAuthorizationHeader => Truthy(token)
           /\ HasBasicAuth => Truthy(user) /\ password # None

\* The extra headers the constructor call supplied.
CallerHeaders ==
    IF Arg(args, "headers", None) = None THEN EmptyDict ELSE args.headers

\* The client sets the Authorization header itself (client.py always does).
TokenMode ==
    rev = "client" \/ Lower(client.auth_type.s) # "httpbasicauth"

\* C21: in the request context of every constructed client, in token mode
\* and in basic-auth mode, every extra header the caller supplied is a
\* default header with the caller's value, except that in token mode the
\* Authorization header is <auth_type> <token>.
C21_CallerHeadersAreDefaults ==
    (client # NoClient /\ client.state = "ok") =>
        \A h \in DOMAIN CallerHeaders :
            /\ h \in DOMAIN session.headers
            /\ session.headers[h] =
                   IF h = "Authorization" /\ TokenMode
                   THEN AuthorizationValue(client.auth_type, client.token)
                   ELSE CallerHeaders[h]
====
